---- MODULE Spec2Model ----
(***************************************************************************)
(* A model of isomorphory: the bounded task runner (parallelLimit), the    *)
(* default comparison functions, the streaming and the accumulating        *)
(* transform, the dual-source readers and the executor.                    *)
(***************************************************************************)
EXTENDS Integers, Sequences, FiniteSets, TLC

VARIABLES
  \* ---- parallelLimit (utils.ts) ----
  limit,        \* the limit argument
  tasks,        \* the tasks argument: a sequence of task ids
  queue,        \* const queue = [...tasks], shared by the workers
  wpc,          \* per worker: "running" | "fulfilled" | "rejected"
  wcur,         \* per worker: the task it awaits (nextTask)
  wacc,         \* per worker: acc of executeTasks
  plState,      \* "init" | "waiting" | "returned" | "thrown"
  plResult,     \* the list parallelLimit returned
  failedTasks,  \* the tasks that rejected
  startOrder,   \* the tasks in the order they were called
  doneOrder,    \* the tasks in the order they fulfilled
  \* ---- createDataTransform / createPausedDataTransform (utils.ts) ----
  pauseTransform, \* TRUE: createPausedDataTransform, FALSE: createDataTransform
  accumulator,  \* the accumulator of createPausedDataTransform
  tState,       \* "idle" | "open" | "finished" (final has run) |
                \* "errored" (transform threw) | "destroyed" ('error' emitted)
  nChunks,      \* the chunk pairs written to the transform so far
  lastChunk,    \* the chunk pair written last
  pushed,       \* what the last write or final pushed downstream (this.push)
  nEmitted,     \* how many values were pushed downstream so far
  partialFile,  \* .isomorpher/partial.json: <<>> or <<the data written>>
  dirExists,    \* whether the directory .isomorpher exists
  uncaught,     \* an exception left an event listener: the process dies
  srcSeen,      \* history: the source Records written so far, as field sets
  tgtSeen,      \* history: the target Records written so far, as field sets
  repeated,     \* history: a Record came again in a later chunk of its side
  srcTotal,     \* history: how many source Records were written
  tgtTotal,     \* history: how many target Records were written
  \* ---- executor (executor.ts) and the streams it pipes (utils.ts) ----
  hasSetup,     \* taskDefinition.setupFn is supplied
  hasTeardown,  \* taskDefinition.teardownFn is supplied
  hasErrorFn,   \* taskDefinition.errorFn is supplied
  sequentialRead, \* taskDefinition.sequentialRead
  epc,          \* where the run is: "idle" | "start" | "setup" | "piping" |
                \* "failed" | "catch" | "finally" | "teardown" | "resolved" |
                \* "rejected" | "crashed"
  failure,      \* the stage that failed: "none" | "setup" | "reader" |
                \* "transform" | "format" | "sink"
  hookThrew,    \* errorFn threw
  setupCalls, teardownCalls, errorFnCalls, \* invocations of the hooks
  consoleErrors, \* console.error(e) of the pipeline's catch handler
  consoleLogs,  \* console.log(e) of the catch block
  rpc,          \* the read stream: "idle" | "both" | "a" | "b" (readers in
                \* flight) | "ended" | "failed" | "destroyed"
  nSteps,       \* steps of the read iterator begun
  aCalls, bCalls, \* invocations of the two readers
  aNull, bNull, \* the reader has returned null
  calledAfterNull, \* the readers invoked again after they returned null
  aRes,         \* sequential read: what aReaderFn resolved to
  bArg,         \* sequential read: <<>> or <<the argument bReaderFn got>>
  lastStep,     \* what the two readers returned in the last step
  nYielded,     \* chunk pairs the read iterator yielded
  readsAfterFailure, \* reader invocations made once a stage had failed
  rq,           \* chunk pairs written to the transform, not yet transformed
  dq,           \* values the transform pushed, not yet formatted
  written,      \* blocks written to the output file
  \* ---- buildTransform (executor.ts) ----
  taskTransformFn, \* taskDefinition.transformFn: "undefined" or a function
  taskCompareFn,   \* taskDefinition.compareFn: "undefined" or a function
  builtWith,    \* the function the transform stream applies to its chunks
  \* ---- stringifyObject / unstringifyObject (defaults.ts) ----
  record,       \* a Record
  record2,      \* the same fields, inserted in some order
  encoded,      \* stringifyObject(record)
  encoded2,     \* stringifyObject(record2)
  decoded,      \* unstringifyObject(encoded)
  dpc,          \* "idle" | "input" | "encoded" | "decoded"
  \* ---- getArrayDiffs / defaultCompareFn / defaultFormatFn (defaults.ts) ----
  fname,        \* the function called
  argA,         \* its first array: keys, or Records
  argB,         \* its second array
  argN,         \* the match count passed in
  result,       \* what it returned
  fpc,          \* "idle" | "call" | "returned"
  \* ---- two accumulating transforms side by side (utils.ts) ----
  accumulators, \* per transform instance: its accumulator
  fedChunks,    \* per instance: the chunk pairs written to it
  iState,       \* per instance: "open" | "finished"
  emitted,      \* per instance: what it pushed
  writeOrder    \* the instances in the order their chunk steps ran

plVars == <<limit, tasks, queue, wpc, wcur, wacc, plState, plResult,
            failedTasks, startOrder, doneOrder>>

trVars == <<pauseTransform, accumulator, tState, nChunks, lastChunk, pushed,
            nEmitted, partialFile, dirExists, uncaught, srcSeen, tgtSeen,
            repeated, srcTotal, tgtTotal>>

exVars == <<hasSetup, hasTeardown, hasErrorFn, sequentialRead, epc, failure,
            hookThrew, setupCalls, teardownCalls, errorFnCalls, consoleErrors,
            consoleLogs, rpc, nSteps, aCalls, bCalls, aNull, bNull,
            calledAfterNull, aRes, bArg, lastStep, nYielded,
            readsAfterFailure, rq, dq, written>>

btVars == <<taskTransformFn, taskCompareFn, builtWith>>

dfVars == <<record, record2, encoded, encoded2, decoded, dpc>>

fnVars == <<fname, argA, argB, argN, result, fpc>>

inVars == <<accumulators, fedChunks, iState, emitted, writeOrder>>

vars == <<plVars, trVars, exVars, btVars, dfVars, fnVars, inVars>>

\* ---------------------------------------------------------------- bounds
MaxTasks == 4
MaxLimit == 3
MaxChunks == 3
MaxSteps == 3
MaxBuffered == 2
MaxFields == 2
MaxBuiltChunks == 2
MaxKeys == 3
MaxRows == 2
MaxInstanceChunks == 2

\* --------------------------------------------------------------- helpers
RECURSIVE FlattenUpTo(_, _)
\* results.map(r => r.value).flat() over the workers 1..k
FlattenUpTo(accs, k) ==
  IF k = 0 THEN <<>> ELSE FlattenUpTo(accs, k - 1) \o accs[k]

SeqRange(s) == {s[i] : i \in 1..Len(s)}

\* ===================================================== defaults (pure part)
\* A string is a sequence of characters; a Record (a JavaScript object) is the
\* sequence of its <<name, value>> entries in insertion order, names distinct.

\* '', between a name and its value, and '', between two fields
\* (written '#' and '@' in the documentation of stringifyObject).
SEP_KV == "#"
SEP_FIELD == "@"

\* The UTF-16 code unit of a character: `a < b` on strings compares by these.
CharCode(c) ==
  CASE c = "1" -> 49
    [] c = "2" -> 50
    [] c = "a" -> 97
    [] c = "b" -> 98
    [] c = SEP_KV -> 59520
    [] c = SEP_FIELD -> 59521

RECURSIVE StrLess(_, _)
\* a < b on two strings
StrLess(a, b) ==
  IF b = <<>> THEN FALSE
  ELSE IF a = <<>> THEN TRUE
  ELSE IF CharCode(Head(a)) < CharCode(Head(b)) THEN TRUE
  ELSE IF CharCode(Head(b)) < CharCode(Head(a)) THEN FALSE
  ELSE StrLess(Tail(a), Tail(b))

RECURSIVE InsertEntry(_, _)
\* One entry put in its place among sorted entries (after its equals: stable).
InsertEntry(e, sorted) ==
  IF sorted = <<>> THEN <<e>>
  ELSE IF StrLess(e[1], Head(sorted)[1]) THEN <<e>> \o sorted
  ELSE <<Head(sorted)>> \o InsertEntry(e, Tail(sorted))

RECURSIVE SortEntries(_)
\* Object.entries(obj).sort(([a], [b]) => a < b ? -1 : b < a ? 1 : 0)
SortEntries(es) ==
  IF es = <<>> THEN <<>>
  ELSE InsertEntry(es[Len(es)], SortEntries(SubSeq(es, 1, Len(es) - 1)))

RECURSIVE Join(_, _)
\* parts.join(sep)
Join(parts, sep) ==
  IF parts = <<>> THEN <<>>
  ELSE IF Len(parts) = 1 THEN parts[1]
  ELSE parts[1] \o <<sep>> \o Join(Tail(parts), sep)

\* Mutant: the fields are joined in insertion order, not sorted by name.
StringifyObjectUnsorted(obj) ==
  Join([i \in 1..Len(obj) |-> obj[i][1] \o <<SEP_KV>> \o obj[i][2]], SEP_FIELD)

\* stringifyObject
stringifyObject(obj) ==
  LET sortedEntries == SortEntries(obj)
      joinedKeyVal == [i \in 1..Len(sortedEntries) |->
                         sortedEntries[i][1] \o <<SEP_KV>> \o sortedEntries[i][2]]
  IN Join(joinedKeyVal, SEP_FIELD)

RECURSIVE Split(_, _)
\* str.split(sep): always at least one piece
Split(str, sep) ==
  IF \A i \in 1..Len(str) : str[i] # sep THEN <<str>>
  ELSE LET k == CHOOSE i \in 1..Len(str) :
                  str[i] = sep /\ \A j \in 1..(i - 1) : str[j] # sep
       IN <<SubSeq(str, 1, k - 1)>> \o Split(SubSeq(str, k + 1, Len(str)), sep)

\* The value of a field whose piece has no '': entry[1] is undefined.
UndefinedValue == <<"undefined">>

RECURSIVE FromEntries(_)
\* Object.fromEntries(entries): entry[0] names the field, entry[1] is its
\* value; a name met again keeps its place and takes the later value.
FromEntries(entries) ==
  IF entries = <<>> THEN <<>>
  ELSE LET init == FromEntries(SubSeq(entries, 1, Len(entries) - 1))
           e == entries[Len(entries)]
           kv == <<e[1], IF Len(e) >= 2 THEN e[2] ELSE UndefinedValue>>
       IN IF \E i \in 1..Len(init) : init[i][1] = kv[1]
          THEN [i \in 1..Len(init) |-> IF init[i][1] = kv[1] THEN kv ELSE init[i]]
          ELSE Append(init, kv)

\* Mutant: the empty string is split like any other string.
UnstringifyObjectNoEmptyCase(str) ==
  LET splitKeyValPairs == Split(str, SEP_FIELD)
      entries == [i \in 1..Len(splitKeyValPairs) |->
                    Split(splitKeyValPairs[i], SEP_KV)]
  IN FromEntries(entries)

\* unstringifyObject
unstringifyObject(str) ==
  IF str = <<>> THEN <<>>
  ELSE LET splitKeyValPairs == Split(str, SEP_FIELD)
           entries == [i \in 1..Len(splitKeyValPairs) |->
                         Split(splitKeyValPairs[i], SEP_KV)]
       IN FromEntries(entries)

RECURSIVE Distinct(_)
\* [...new Set(a)]: the first occurrence of each element, in order
Distinct(a) ==
  IF a = <<>> THEN <<>>
  ELSE LET init == Distinct(SubSeq(a, 1, Len(a) - 1))
       IN IF a[Len(a)] \in SeqRange(init) THEN init ELSE Append(init, a[Len(a)])

Without(a, s) == SelectSeq(a, LAMBDA x : x \notin s)

\* Mutant: the duplicates inside one side are not removed (a multiset diff).
GetArrayDiffsNoSet(a, b) ==
  <<Without(a, SeqRange(b)), Without(b, SeqRange(a)),
    Cardinality({i \in 1..Len(a) : a[i] \in SeqRange(b)})>>

\* getArrayDiffs([a, b]): what is left of the two sets once the elements in
\* both are deleted, and how many were deleted.
getArrayDiffs(a, b) ==
  LET setA == Distinct(a)
      setB == Distinct(b)
      both == SeqRange(setA) \cap SeqRange(setB)
  IN <<Without(setA, both), Without(setB, both), Cardinality(both)>>

\* undefined + n and NaN + n are NaN; NaN is written -1, no count being negative.
NaN == -1
JSAdd(x, y) == IF x = NaN THEN NaN ELSE x + y

MapSeq(f(_), s) == [i \in 1..Len(s) |-> f(s[i])]

\* Mutant: the previous match count is dropped.
DefaultCompareFnForgets(a, b, previousMatches) ==
  LET d == getArrayDiffs(MapSeq(stringifyObject, a), MapSeq(stringifyObject, b))
  IN <<MapSeq(unstringifyObject, d[1]), MapSeq(unstringifyObject, d[2]), d[3]>>

\* defaultCompareFn([a, b, previousMatches]) for arrays a and b
defaultCompareFn(a, b, previousMatches) ==
  LET d == getArrayDiffs(MapSeq(stringifyObject, a), MapSeq(stringifyObject, b))
  IN <<MapSeq(unstringifyObject, d[1]), MapSeq(unstringifyObject, d[2]),
       JSAdd(previousMatches, d[3])>>

\* ============================================================ transforms

\* What a reader resolves to: null, or an array of Records.
Null == [null |-> TRUE, rows |-> <<>>]
Rows(rs) == [null |-> FALSE, rows |-> rs]

Str(c) == <<c>>
R12 == << <<Str("a"), Str("1")>>, <<Str("b"), Str("2")>> >>
\* R12 with its fields inserted in the other order
R21 == << <<Str("b"), Str("2")>>, <<Str("a"), Str("1")>> >>
R3 == << <<Str("a"), Str("2")>> >>
\* one field whose value holds both separators
RSep == << <<Str("a"), <<"1", SEP_FIELD, "b", SEP_KV, "2">> >> >>

RecordDomain == {R12, R21, R3, RSep}
ChunkDomain ==
  {<<>>} \cup {<<r>> : r \in RecordDomain}
         \cup {<<R12, R3>>, <<R3, R3>>}
ReadResults == {Null} \cup {Rows(c) : c \in ChunkDomain}
\* The reader streams end on a pair of nulls instead of passing it on.
ChunkPairs == (ReadResults \X ReadResults) \ {<<Null, Null>>}

\* A Record as the mapping it is, whatever the order of its fields.
Fields(r) == {r[i] : i \in 1..Len(r)}
FieldSets(rs) == {Fields(r) : r \in rs}
HasSeparator(fields) ==
  \E f \in fields : \E k \in 1..2 : \E j \in 1..Len(f[k]) :
    f[k][j] \in {SEP_KV, SEP_FIELD}

\* The transform not in use.
TransformIdle ==
  /\ pauseTransform = FALSE
  /\ accumulator = <<<<>>, <<>>, 0>>
  /\ tState = "idle"
  /\ nChunks = 0
  /\ lastChunk = <<Null, Null>>
  /\ pushed = <<>>
  /\ nEmitted = 0
  /\ partialFile = <<>>
  /\ dirExists = FALSE
  /\ uncaught = FALSE
  /\ srcSeen = {}
  /\ tgtSeen = {}
  /\ repeated = FALSE
  /\ srcTotal = 0 /\ tgtTotal = 0

\* createDataTransform() / createPausedDataTransform(): let accumulator = [[], [], 0]
TransformCreated(paused) ==
  /\ pauseTransform = paused
  /\ accumulator = <<<<>>, <<>>, 0>>
  /\ tState = "open"
  /\ nChunks = 0
  /\ lastChunk = <<Null, Null>>
  /\ pushed = <<>>
  /\ nEmitted = 0
  /\ partialFile = <<>>
  /\ dirExists \in BOOLEAN
  /\ uncaught = FALSE
  /\ srcSeen = {}
  /\ tgtSeen = {}
  /\ repeated = FALSE
  /\ srcTotal = 0 /\ tgtTotal = 0

\* The history of the Records written, kept for the claims.
Seen(chunk) ==
  /\ srcSeen' = srcSeen \cup FieldSets(SeqRange(chunk[1].rows))
  /\ tgtSeen' = tgtSeen \cup FieldSets(SeqRange(chunk[2].rows))
  /\ repeated' = \/ repeated
                 \/ FieldSets(SeqRange(chunk[1].rows)) \cap srcSeen # {}
                 \/ FieldSets(SeqRange(chunk[2].rows)) \cap tgtSeen # {}
  /\ srcTotal' = srcTotal + Len(chunk[1].rows)
  /\ tgtTotal' = tgtTotal + Len(chunk[2].rows)

\* Mutant: every chunk's result is pushed as it is computed.
PausedTransformPushes(chunk) ==
  /\ chunk[1].null = FALSE /\ chunk[2].null = FALSE
  /\ accumulator' = defaultCompareFn(accumulator[1] \o chunk[1].rows,
                                      accumulator[2] \o chunk[2].rows,
                                      accumulator[3])
  /\ pushed' = <<accumulator'>>
  /\ nEmitted' = nEmitted + 1
  /\ UNCHANGED tState

\* Mutant: the accumulator is replaced by the chunk's own diff.
PausedTransformForgets(chunk) ==
  /\ chunk[1].null = FALSE /\ chunk[2].null = FALSE
  /\ accumulator' = defaultCompareFn(chunk[1].rows, chunk[2].rows, accumulator[3])
  /\ pushed' = <<>>
  /\ UNCHANGED <<tState, nEmitted>>

\* Mutant: each chunk pair's matches replace the count instead of adding to it.
PausedTransformResetsCount(chunk) ==
  /\ chunk[1].null = FALSE /\ chunk[2].null = FALSE
  /\ accumulator' = defaultCompareFn(accumulator[1] \o chunk[1].rows,
                                      accumulator[2] \o chunk[2].rows, 0)
  /\ pushed' = <<>>
  /\ UNCHANGED <<tState, nEmitted>>

\* Mutant: the chunk pair is appended and compareFn is not run.
PausedTransformAppendsOnly(chunk) ==
  /\ chunk[1].null = FALSE /\ chunk[2].null = FALSE
  /\ accumulator' = <<accumulator[1] \o chunk[1].rows,
                      accumulator[2] \o chunk[2].rows, accumulator[3]>>
  /\ pushed' = <<>>
  /\ UNCHANGED <<tState, nEmitted>>

\* transform(chunk, _, callback) of createPausedDataTransform with the default
\* compareFn. Spreading null throws a TypeError: the stream errors, with the
\* source side already appended when it is the target side that is null.
PausedTransform(chunk) ==
  /\ pushed' = <<>>
  /\ UNCHANGED nEmitted
  /\ IF chunk[1].null
     THEN /\ UNCHANGED accumulator
          /\ tState' = "errored"
     ELSE IF chunk[2].null
     THEN /\ accumulator' = <<accumulator[1] \o chunk[1].rows,
                              accumulator[2], accumulator[3]>>
          /\ tState' = "errored"
     ELSE /\ accumulator' = defaultCompareFn(accumulator[1] \o chunk[1].rows,
                                             accumulator[2] \o chunk[2].rows,
                                             accumulator[3])
          /\ UNCHANGED tState

\* transform(chunk, _, callback) of createDataTransform with the default
\* transformFn: the chunk [a, b] has no third element, so previousMatches is
\* undefined and the count undefined + matches. null.map throws a TypeError.
\* The result is pushed by this.push(transformedData) and again by
\* callback(null, transformedData), which pushes its second argument.
StreamingTransform(chunk) ==
  /\ UNCHANGED accumulator
  /\ IF chunk[1].null \/ chunk[2].null
     THEN /\ tState' = "errored"
          /\ pushed' = <<>>
          /\ UNCHANGED nEmitted
     ELSE LET transformedData ==
                defaultCompareFn(chunk[1].rows, chunk[2].rows, NaN)
          IN /\ pushed' = <<transformedData, transformedData>>
             /\ nEmitted' = nEmitted + 2
             /\ UNCHANGED tState

\* One chunk pair written to the transform.
TransformWrite(chunk) ==
  /\ tState = "open"
  /\ nChunks' = nChunks + 1
  /\ lastChunk' = chunk
  /\ Seen(chunk)
  /\ UNCHANGED <<pauseTransform, partialFile, dirExists, uncaught>>
  /\ IF pauseTransform THEN PausedTransform(chunk) ELSE StreamingTransform(chunk)

\* final(callback) of createPausedDataTransform: this.push(accumulator)
PausedFinal ==
  /\ pushed' = <<accumulator>>
  /\ nEmitted' = nEmitted + 1

\* The end of the input: the writable side finishes. createDataTransform has
\* no final and pushes nothing more.
TransformEnd ==
  /\ tState = "open"
  /\ tState' = "finished"
  /\ IF pauseTransform THEN PausedFinal
     ELSE pushed' = <<>> /\ UNCHANGED nEmitted
  /\ UNCHANGED <<pauseTransform, accumulator, nChunks, lastChunk, partialFile,
                 dirExists, uncaught, srcSeen, tgtSeen, repeated,
                 srcTotal, tgtTotal>>

\* saveProgress(data): makeLoggingDir(), then writeFileSync of
\* JSON.stringify(data). mkdirSync fails with EEXIST when the directory is
\* there, which makeLoggingDir takes as done; any other failure it rethrows,
\* and a failure of writeFileSync is thrown as it is.
saveProgress(data) ==
  \/ /\ dirExists' = TRUE
     /\ \/ partialFile' = <<data>> /\ uncaught' = FALSE
        \/ UNCHANGED partialFile /\ uncaught' = TRUE
  \/ /\ ~dirExists
     /\ uncaught' = TRUE
     /\ UNCHANGED <<partialFile, dirExists>>

\* The 'error' event of the transform, emitted when the stream is destroyed
\* with an error (its own or, under pipeline, another stream's).
\* createPausedDataTransform listens with () => saveProgress(accumulator);
\* what saveProgress throws leaves the listener uncaught.
\* createDataTransform has no listener.
TransformErrorEvent ==
  /\ tState \in {"open", "errored", "finished"}
  /\ tState' = "destroyed"
  /\ IF pauseTransform THEN saveProgress(accumulator)
     ELSE UNCHANGED <<partialFile, dirExists, uncaught>>
  /\ UNCHANGED <<pauseTransform, accumulator, nChunks, lastChunk, pushed,
                 nEmitted, srcSeen, tgtSeen, repeated,
                 srcTotal, tgtTotal>>

\* ---- the transforms alone, fed any chunk pairs ----
PLIdle ==
  /\ limit = 0 /\ tasks = <<>> /\ queue = <<>> /\ wpc = <<>> /\ wcur = <<>>
  /\ wacc = <<>> /\ plState = "idle" /\ plResult = <<>> /\ failedTasks = {}
  /\ startOrder = <<>> /\ doneOrder = <<>>

ExecutorIdle ==
  /\ hasSetup = FALSE /\ hasTeardown = FALSE /\ hasErrorFn = FALSE
  /\ sequentialRead = FALSE /\ epc = "idle" /\ failure = "none"
  /\ hookThrew = FALSE
  /\ setupCalls = 0 /\ teardownCalls = 0 /\ errorFnCalls = 0
  /\ consoleErrors = 0 /\ consoleLogs = 0
  /\ rpc = "idle" /\ nSteps = 0 /\ aCalls = 0 /\ bCalls = 0
  /\ aNull = FALSE /\ bNull = FALSE /\ calledAfterNull = {}
  /\ aRes = Null /\ bArg = <<>> /\ lastStep = <<>> /\ nYielded = 0
  /\ readsAfterFailure = 0
  /\ rq = <<>> /\ dq = <<>> /\ written = 0

\* buildTransform with the functions the task definition leaves out: the
\* transform stream falls back on defaultCompareFn.
BuildDefault ==
  /\ taskTransformFn = "undefined"
  /\ taskCompareFn = "undefined"
  /\ builtWith = "defaultCompareFn"

\* stringifyObject and unstringifyObject not called on their own.
DefaultsIdle ==
  /\ record = <<>> /\ record2 = <<>> /\ encoded = <<>> /\ encoded2 = <<>>
  /\ decoded = <<>> /\ dpc = "idle"

\* getArrayDiffs, defaultCompareFn and defaultFormatFn not called on their own.
FunctionsIdle ==
  /\ fname = "none" /\ argA = <<>> /\ argB = <<>> /\ argN = 0
  /\ result = <<>> /\ fpc = "idle"

\* No second transform beside the pipeline's.
InstancesIdle ==
  /\ accumulators = <<>> /\ fedChunks = <<>> /\ iState = <<>>
  /\ emitted = <<>> /\ writeOrder = <<>>

TInit ==
  /\ \E paused \in BOOLEAN : TransformCreated(paused)
  /\ PLIdle
  /\ ExecutorIdle
  /\ BuildDefault
  /\ DefaultsIdle
  /\ FunctionsIdle /\ InstancesIdle

WriteChunk ==
  /\ nChunks < MaxChunks
  /\ \E chunk \in ChunkPairs : TransformWrite(chunk)
  /\ UNCHANGED <<plVars, exVars, btVars, dfVars, fnVars, inVars>>

EndOfInput ==
  /\ TransformEnd
  /\ UNCHANGED <<plVars, exVars, btVars, dfVars, fnVars, inVars>>

StreamDestroyed ==
  /\ TransformErrorEvent
  /\ UNCHANGED <<plVars, exVars, btVars, dfVars, fnVars, inVars>>

TNext == WriteChunk \/ EndOfInput \/ StreamDestroyed

SpecT == TInit /\ [][TNext]_vars

\* --------------------------------------------------- claims on transforms

\* diff(union of the source chunks, union of the target chunks), Records
\* being equal when they have the same fields
DiffOfUnions(d) ==
  LET src == srcSeen
      tgt == tgtSeen
  IN /\ FieldSets(SeqRange(d[1])) = src \ tgt
     /\ Len(d[1]) = Cardinality(src \ tgt)
     /\ FieldSets(SeqRange(d[2])) = tgt \ src
     /\ Len(d[2]) = Cardinality(tgt \ src)
     /\ d[3] = Cardinality(src \cap tgt)

\* C1 as stated: whatever chunk pairs were written, the DiffState emitted at
\* the end of the input is the diff of the unions of the two sides.
C1_AnyChunks ==
  (pauseTransform /\ tState = "finished") =>
    (Len(pushed) = 1 /\ DiffOfUnions(pushed[1]))

\* C1 amended: when no Record came in two chunks of the same side and no field
\* holds a reserved separator, the DiffState emitted at the end of the input
\* is the diff of the unions of the two sides.
C1_AccumulatedDiff ==
  (/\ pauseTransform
   /\ tState = "finished"
   /\ ~repeated
   /\ \A r \in srcSeen \cup tgtSeen : ~HasSeparator(r)) =>
    (Len(pushed) = 1 /\ DiffOfUnions(pushed[1]))

\* A Record whose counterpart came in a later chunk pair, with its fields in
\* the other order, beside a missing Record.
C1_Witness ==
  /\ pauseTransform
  /\ tState = "finished"
  /\ ~repeated
  /\ nChunks >= 2
  /\ srcSeen = {Fields(R12), Fields(R3)}
  /\ tgtSeen = {Fields(R21)}
  /\ lastChunk = <<Rows(<<>>), Rows(<<R21>>)>>
  /\ pushed = << <<MapSeq(unstringifyObject, <<stringifyObject(R3)>>), <<>>, 1>> >>

\* C2: the accumulating transform pushes nothing while chunk pairs arrive and
\* exactly one DiffState, the accumulator, once the input has ended.
C2_OneEmissionAtEnd ==
  pauseTransform =>
    /\ (tState \in {"open", "errored"} => nEmitted = 0 /\ pushed = <<>>)
    /\ (tState = "finished" => nEmitted = 1 /\ pushed = <<accumulator>>)
    /\ nEmitted <= 1

C2_Witness ==
  /\ pauseTransform
  /\ tState = "finished"
  /\ nChunks >= 2
  /\ nEmitted = 1
  /\ accumulator[3] > 0

\* The run with no chunk pair at all.
C2_WitnessEmpty ==
  pauseTransform /\ tState = "finished" /\ nChunks = 0 /\ nEmitted = 1

\* C3: the streaming transform emits one DiffState per chunk pair, the k-th
\* computed from the k-th chunk pair only.
C3_OneResultPerChunk ==
  (~pauseTransform /\ tState \in {"open", "finished"}) =>
    /\ nEmitted = nChunks
    /\ (tState = "open" /\ nChunks > 0 =>
          pushed = <<defaultCompareFn(lastChunk[1].rows, lastChunk[2].rows, NaN)>>)

\* The matches defaultCompareFn finds in one chunk pair.
ChunkMatches(chunk) ==
  getArrayDiffs(MapSeq(stringifyObject, chunk[1].rows),
                MapSeq(stringifyObject, chunk[2].rows))[3]

\* C26: the match count of the k-th DiffState the streaming transform emits
\* is that of the one before (0 for the first) plus the matches found in the
\* k-th chunk pair.
C26_RunningMatchCount ==
  [][(~pauseTransform /\ nChunks' = nChunks + 1 /\ tState' = "open") =>
       pushed'[1][3] = (IF nChunks = 0 THEN 0 ELSE pushed[1][3])
                         + ChunkMatches(lastChunk')]_vars

\* No Record written so far holds a reserved separator.
NoSeparatorSeen == \A r \in srcSeen \cup tgtSeen : ~HasSeparator(r)

\* No Record came twice in the source feed, nor in the target feed: each
\* side has as many distinct Records as Records.
NoRecordTwice ==
  /\ srcTotal = Cardinality(srcSeen)
  /\ tgtTotal = Cardinality(tgtSeen)

\* C31: when no Record came twice within a feed (and none holds a reserved
\* separator), the DiffState the accumulating transform emits at the end of
\* the input, every chunk pair having had both sides, has matchCount +
\* |missing| source Records and matchCount + |extraneous| target Records in
\* all, and is the diff of the unions of the chunks, however the Records were
\* split into chunks.
C31_TotalsAndUnionDiff ==
  (/\ pauseTransform
   /\ tState = "finished"
   /\ NoRecordTwice
   /\ NoSeparatorSeen) =>
    /\ Len(pushed) = 1
    /\ pushed[1][3] + Len(pushed[1][1]) = srcTotal
    /\ pushed[1][3] + Len(pushed[1][2]) = tgtTotal
    /\ DiffOfUnions(pushed[1])

\* Three chunk pairs: a match within the first, a source Record in the
\* second whose counterpart comes in the third.
C31_Witness ==
  /\ pauseTransform
  /\ tState = "finished"
  /\ NoRecordTwice
  /\ nChunks = 3
  /\ srcTotal = 2 /\ tgtTotal = 2
  /\ lastChunk = <<Rows(<<>>), Rows(<<R21>>)>>
  /\ pushed = << <<<<>>, <<>>, 2>> >>

\* C32: after every chunk step the accumulating transform completed, on
\* Records without reserved separators, no Record is both in missing and in
\* extraneous, none is twice in either, and matchCount is a natural number;
\* no step makes matchCount smaller.
C32_AccumulatorWellFormed ==
  /\ []((/\ pauseTransform
         /\ tState \in {"open", "finished"}
         /\ NoSeparatorSeen) =>
          /\ FieldSets(SeqRange(accumulator[1]))
               \cap FieldSets(SeqRange(accumulator[2])) = {}
          /\ Cardinality(FieldSets(SeqRange(accumulator[1]))) = Len(accumulator[1])
          /\ Cardinality(FieldSets(SeqRange(accumulator[2]))) = Len(accumulator[2])
          /\ accumulator[3] \in Nat)
  /\ [][pauseTransform => accumulator'[3] >= accumulator[3]]_vars

\* Records that came again after they were matched: one missing, one
\* extraneous, two matches counted.
C32_Witness ==
  /\ pauseTransform
  /\ tState = "open"
  /\ nChunks = 3
  /\ repeated
  /\ NoSeparatorSeen
  /\ Len(accumulator[1]) = 1
  /\ Len(accumulator[2]) = 1
  /\ accumulator[3] = 2

\* ============================ stringifyObject and unstringifyObject alone

\* Names and values of fields: strings, some holding a reserved separator.
\* No name is an integer index, which Object.entries would list first.
NameDomain == {<<>>, Str("a"), Str("b"), <<"a", "b">>, <<"a", SEP_KV>>}
ValueDomain ==
  {<<>>, Str("1"), Str("2"), <<"1", SEP_FIELD, "b", SEP_KV, "2">>, <<SEP_KV>>}

\* The Records of at most MaxFields fields, in every insertion order.
RecordInputs ==
  UNION {{r \in [1..n -> NameDomain \X ValueDomain] :
            \A i, j \in 1..n : i # j => r[i][1] # r[j][1]} : n \in 0..MaxFields}

\* The Records with the fields of r, in every insertion order.
Reorderings(r) ==
  {q \in [1..Len(r) -> SeqRange(r)] : SeqRange(q) = SeqRange(r)}

DInit ==
  /\ record \in RecordInputs
  /\ record2 \in Reorderings(record)
  /\ encoded = <<>> /\ encoded2 = <<>> /\ decoded = <<>>
  /\ dpc = "input"
  /\ PLIdle /\ TransformIdle /\ ExecutorIdle /\ BuildDefault
  /\ FunctionsIdle /\ InstancesIdle

\* stringifyObject called on both Records
Stringify ==
  /\ dpc = "input"
  /\ encoded' = stringifyObject(record)
  /\ encoded2' = stringifyObject(record2)
  /\ dpc' = "encoded"
  /\ UNCHANGED <<record, record2, decoded>>
  /\ UNCHANGED <<plVars, trVars, exVars, btVars, fnVars, inVars>>

\* unstringifyObject called on the string of the first Record
Unstringify ==
  /\ dpc = "encoded"
  /\ decoded' = unstringifyObject(encoded)
  /\ dpc' = "decoded"
  /\ UNCHANGED <<record, record2, encoded, encoded2>>
  /\ UNCHANGED <<plVars, trVars, exVars, btVars, fnVars, inVars>>

DNext == Stringify \/ Unstringify

SpecD == DInit /\ [][DNext]_vars

\* ------------------------------ claims on stringifyObject/unstringifyObject

\* C19: unstringifyObject(stringifyObject(r)) is r, as a mapping, for every
\* Record whose names and values hold no reserved separator; the empty Record
\* gives the empty string and the empty string the empty Record.
C19_RoundTrip ==
  /\ (dpc \in {"encoded", "decoded"} /\ record = <<>> => encoded = <<>>)
  /\ (dpc = "decoded" /\ encoded = <<>> => decoded = <<>>)
  /\ (dpc = "decoded" /\ ~HasSeparator(Fields(record)) =>
        /\ Fields(decoded) = Fields(record)
        /\ Len(decoded) = Len(record))

\* Two fields inserted out of order, one with an empty value, came back.
C19_Witness ==
  /\ dpc = "decoded"
  /\ record = << <<Str("b"), <<>>>>, <<Str("a"), Str("1")>> >>
  /\ decoded = << <<Str("a"), Str("1")>>, <<Str("b"), <<>>>> >>

\* The empty Record came back from the empty string.
C19_WitnessEmpty ==
  dpc = "decoded" /\ record = <<>> /\ encoded = <<>> /\ decoded = <<>>

\* The fields of r joined in ascending order of their names.
IsAscendingKey(key, r) ==
  \E q \in Reorderings(r) :
    /\ \A i, j \in 1..Len(q) : i < j => StrLess(q[i][1], q[j][1])
    /\ key = Join([i \in 1..Len(q) |-> q[i][1] \o <<SEP_KV>> \o q[i][2]],
                  SEP_FIELD)

\* C20: two Records with the same fields give the same string, whatever the
\* order the fields were inserted in, and it lists the fields in ascending
\* order of their names.
C20_OrderInvariant ==
  dpc \in {"encoded", "decoded"} =>
    /\ encoded = encoded2
    /\ IsAscendingKey(encoded, record)

\* Two Records with the same two fields in opposite orders were encoded.
C20_Witness ==
  /\ dpc = "encoded"
  /\ record = << <<Str("b"), Str("2")>>, <<Str("a"), Str("1")>> >>
  /\ record2 = << <<Str("a"), Str("1")>>, <<Str("b"), Str("2")>> >>
  /\ encoded = <<"a", SEP_KV, "1", SEP_FIELD, "b", SEP_KV, "2">>

\* ======================================================== buildTransform

\* What a task definition may give as transformFn and as compareFn.
TransformFns == {"undefined", "identity", "swapSides"}
CompareFns == {"undefined", "defaultCompareFn", "countRows"}

\* A function of the task definition applied to an array [a, b] or
\* [a, b, matches] of row arrays.
ApplyFn(fn, arg) ==
  CASE fn = "defaultCompareFn" ->
         defaultCompareFn(arg[1], arg[2], IF Len(arg) >= 3 THEN arg[3] ELSE NaN)
    [] fn = "identity" -> arg
    [] fn = "swapSides" -> <<arg[2], arg[1]>> \o SubSeq(arg, 3, Len(arg))
    [] fn = "countRows" -> <<<<>>, <<>>, Len(arg[1]) + Len(arg[2])>>

\* buildTransform(pauseTransform, transformFn): the executor hands
\* taskDefinition.transformFn to the transform stream as the function it
\* applies to its chunks, and the stream's default parameter puts
\* defaultCompareFn in its place when it is undefined.
BuiltFn(transformFn) ==
  IF transformFn = "undefined" THEN "defaultCompareFn" ELSE transformFn

BuiltChunkDomain == {<<>>, <<R12>>, <<R3>>, <<R12, R3>>}
BuiltChunkPairs == {<<Rows(a), Rows(b)>> : a, b \in BuiltChunkDomain}

BInit ==
  /\ taskTransformFn \in TransformFns
  /\ taskCompareFn \in CompareFns
  /\ builtWith = BuiltFn(taskTransformFn)
  /\ \E paused \in BOOLEAN : TransformCreated(paused)
  /\ PLIdle /\ ExecutorIdle /\ DefaultsIdle
  /\ FunctionsIdle /\ InstancesIdle

\* transform(chunk, _, callback) of the stream that was built.
BuiltWrite ==
  /\ tState = "open"
  /\ nChunks < MaxBuiltChunks
  /\ \E chunk \in BuiltChunkPairs :
       /\ lastChunk' = chunk
       /\ IF pauseTransform
          THEN /\ accumulator' =
                    ApplyFn(builtWith, <<accumulator[1] \o chunk[1].rows,
                                         accumulator[2] \o chunk[2].rows,
                                         accumulator[3]>>)
               /\ pushed' = <<>>
               /\ UNCHANGED nEmitted
          ELSE LET transformedData ==
                     ApplyFn(builtWith, <<chunk[1].rows, chunk[2].rows>>)
               IN /\ pushed' = <<transformedData, transformedData>>
                  /\ nEmitted' = nEmitted + 2
                  /\ UNCHANGED accumulator
  /\ nChunks' = nChunks + 1
  /\ UNCHANGED <<pauseTransform, tState, partialFile, dirExists, uncaught,
                 srcSeen, tgtSeen, repeated,
                 srcTotal, tgtTotal>>
  /\ UNCHANGED <<plVars, exVars, btVars, dfVars, fnVars, inVars>>

\* The end of the input of the stream that was built.
BuiltEnd ==
  /\ TransformEnd
  /\ UNCHANGED <<plVars, exVars, btVars, dfVars, fnVars, inVars>>

BNext == BuiltWrite \/ BuiltEnd

SpecB == BInit /\ [][BNext]_vars

\* --------------------------------------------- claims on buildTransform

\* The function a task definition means when it leaves one out.
OrDefault(fn, default) == IF fn = "undefined" THEN default ELSE fn

\* transformFn applied to the pair read, then compareFn to its result.
TransformedThenCompared(a, b, matches) ==
  LET t == ApplyFn(OrDefault(taskTransformFn, "identity"), <<a, b>>)
  IN ApplyFn(OrDefault(taskCompareFn, "defaultCompareFn"),
             <<t[1], t[2]>> \o matches)

\* C15: the chunk pair is transformed with the task definition's transformFn
\* and the result compared with its compareFn, which gives the DiffState
\* handed on to the formatter.
C15_CompareFnDetermines ==
  (tState = "open" /\ nChunks = 1) =>
    IF pauseTransform
    THEN accumulator =
           TransformedThenCompared(lastChunk[1].rows, lastChunk[2].rows, <<0>>)
    ELSE pushed[1] =
           TransformedThenCompared(lastChunk[1].rows, lastChunk[2].rows, <<>>)

\* ================================================== readers and executor

\* What a reader of the pipeline resolves to.
PipeResults == {Null, Rows(<<R12>>), Rows(<<R3>>)}

\* Whether a stage has failed when a reader is invoked.
AfterFailure == IF failure # "none" THEN 1 ELSE 0

\* The readers invoked again though they had returned null.
Recalled(readers) ==
  calledAfterNull \cup {r \in readers : (r = "a" /\ aNull) \/ (r = "b" /\ bNull)}

\* The constant part of a run.
ExecConfigUnchanged ==
  UNCHANGED <<hasSetup, hasTeardown, hasErrorFn, sequentialRead>>

HooksUnchanged ==
  UNCHANGED <<hookThrew, setupCalls, teardownCalls, errorFnCalls,
              consoleErrors, consoleLogs>>

ReaderUnchanged ==
  UNCHANGED <<rpc, nSteps, aCalls, bCalls, aNull, bNull, calledAfterNull,
              aRes, bArg, lastStep, nYielded, readsAfterFailure>>

\* executor(taskDefinition) returns the run; a task definition may leave out
\* the hooks.
Init ==
  /\ hasSetup \in BOOLEAN
  /\ hasTeardown \in BOOLEAN
  /\ hasErrorFn \in BOOLEAN
  /\ sequentialRead \in BOOLEAN
  /\ epc = "start" /\ failure = "none" /\ hookThrew = FALSE
  /\ setupCalls = 0 /\ teardownCalls = 0 /\ errorFnCalls = 0
  /\ consoleErrors = 0 /\ consoleLogs = 0
  /\ rpc = "idle" /\ nSteps = 0 /\ aCalls = 0 /\ bCalls = 0
  /\ aNull = FALSE /\ bNull = FALSE /\ calledAfterNull = {}
  /\ aRes = Null /\ bArg = <<>> /\ lastStep = <<>> /\ nYielded = 0
  /\ readsAfterFailure = 0
  /\ rq = <<>> /\ dq = <<>> /\ written = 0
  /\ \E paused \in BOOLEAN : TransformCreated(paused)
  /\ PLIdle
  /\ BuildDefault
  /\ DefaultsIdle
  /\ FunctionsIdle /\ InstancesIdle

\* The run begins: if (setupFn) await setupFn(); without it the streams are
\* built and piped at once.
RunStarts ==
  /\ epc = "start"
  /\ IF hasSetup
     THEN epc' = "setup" /\ setupCalls' = setupCalls + 1
     ELSE epc' = "piping" /\ UNCHANGED setupCalls
  /\ UNCHANGED <<failure, hookThrew, teardownCalls, errorFnCalls,
                 consoleErrors, consoleLogs, rq, dq, written>>
  /\ ExecConfigUnchanged /\ ReaderUnchanged
  /\ UNCHANGED <<plVars, trVars, btVars, dfVars, fnVars, inVars>>

\* Mutant: a rejection of setupFn is logged and the pipeline runs all the same.
SetupSettlesIgnoresFailure ==
  /\ epc = "setup"
  /\ epc' = "piping"
  /\ \/ UNCHANGED <<failure, consoleLogs>>
     \/ failure' = "setup" /\ consoleLogs' = consoleLogs + 1
  /\ UNCHANGED <<hookThrew, setupCalls, teardownCalls, errorFnCalls,
                 consoleErrors, rq, dq, written>>
  /\ ExecConfigUnchanged /\ ReaderUnchanged
  /\ UNCHANGED <<plVars, trVars, btVars, dfVars, fnVars, inVars>>

\* await setupFn() settles: on a rejection the catch block logs it and the
\* pipeline is never built.
SetupSettles ==
  /\ epc = "setup"
  /\ \/ /\ epc' = "piping"
        /\ UNCHANGED <<failure, consoleLogs>>
     \/ /\ epc' = "finally"
        /\ failure' = "setup"
        /\ consoleLogs' = consoleLogs + 1
  /\ UNCHANGED <<hookThrew, setupCalls, teardownCalls, errorFnCalls,
                 consoleErrors, rq, dq, written>>
  /\ ExecConfigUnchanged /\ ReaderUnchanged
  /\ UNCHANGED <<plVars, trVars, btVars, dfVars, fnVars, inVars>>

\* Mutant: the transform takes chunk pairs however full its readable side is.
TransformAlwaysReady == tState = "open"

\* The transform takes the next chunk pair only while its readable side is
\* below its high-water mark.
TransformReady == tState = "open" /\ Len(dq) < MaxBuffered

\* A stage of the running pipeline fails.
StageFails(stage) ==
  /\ epc' = "failed"
  /\ failure' = stage

\* A chunk pair the read iterator yields is pushed by the read stream and
\* written to the transform: transformed at once when the transform is
\* ready, buffered otherwise. After a failure the stream is destroyed and the
\* pair is dropped.
Yield(pair) ==
  /\ nYielded' = nYielded + 1
  /\ IF epc # "piping"
     THEN UNCHANGED <<epc, failure, rq, dq, trVars>>
     ELSE IF rq = <<>> /\ TransformReady
     THEN /\ TransformWrite(pair)
          /\ dq' = dq \o pushed'
          /\ UNCHANGED rq
          /\ IF tState' = "errored" THEN StageFails("transform")
             ELSE UNCHANGED <<epc, failure>>
     ELSE /\ rq' = Append(rq, pair)
          /\ UNCHANGED <<epc, failure, dq, trVars>>

\* A reader rejected: the read iterator throws and the read stream errors.
ReaderThrows ==
  /\ rpc' = "failed"
  /\ IF epc = "piping" THEN StageFails("reader") ELSE UNCHANGED <<epc, failure>>
  /\ UNCHANGED <<rq, dq, trVars, nYielded>>

\* Mutant: a pair of nulls is yielded like any other pair.
StepResultsAlwaysYields(ra, rb) ==
  /\ lastStep' = <<ra, rb>>
  /\ aNull' = (aNull \/ ra.null)
  /\ bNull' = (bNull \/ rb.null)
  /\ rpc' = IF epc = "piping" THEN "idle" ELSE "destroyed"
  /\ Yield(<<ra, rb>>)

\* Mutant: the step ends the iterator as soon as one reader returns null.
StepResultsEitherNull(ra, rb) ==
  /\ lastStep' = <<ra, rb>>
  /\ aNull' = (aNull \/ ra.null)
  /\ bNull' = (bNull \/ rb.null)
  /\ IF ra.null \/ rb.null
     THEN /\ rpc' = IF epc = "piping" THEN "ended" ELSE "destroyed"
          /\ UNCHANGED <<epc, failure, rq, dq, trVars, nYielded>>
     ELSE /\ rpc' = IF epc = "piping" THEN "idle" ELSE "destroyed"
          /\ Yield(<<ra, rb>>)

\* The step is over with both results: null from both ends the iterator, and
\* anything else is yielded as the pair [a, b].
StepResults(ra, rb) ==
  /\ lastStep' = <<ra, rb>>
  /\ aNull' = (aNull \/ ra.null)
  /\ bNull' = (bNull \/ rb.null)
  /\ IF ra.null /\ rb.null
     THEN /\ rpc' = IF epc = "piping" THEN "ended" ELSE "destroyed"
          /\ UNCHANGED <<epc, failure, rq, dq, trVars, nYielded>>
     ELSE /\ rpc' = IF epc = "piping" THEN "idle" ELSE "destroyed"
          /\ Yield(<<ra, rb>>)

\* Mutant: the read stream goes on asking its iterator after a failure.
MayReadAfterFailure ==
  epc \in {"piping", "failed", "catch"} /\ rpc = "idle" /\ Len(rq) < MaxBuffered

\* The read stream asks its iterator for the next pair while it may push.
MayRead == epc = "piping" /\ rpc = "idle" /\ Len(rq) < MaxBuffered

\* createParallelReadStream, a step begins: Promise.all([aReaderFn(),
\* bReaderFn()]) invokes both readers.
ParallelReadBegins ==
  /\ ~sequentialRead
  /\ MayRead
  /\ nSteps < MaxSteps
  /\ rpc' = "both"
  /\ nSteps' = nSteps + 1
  /\ aCalls' = aCalls + 1
  /\ bCalls' = bCalls + 1
  /\ calledAfterNull' = Recalled({"a", "b"})
  /\ UNCHANGED <<aNull, bNull, aRes, bArg, lastStep, nYielded,
                 readsAfterFailure>>
  /\ UNCHANGED <<epc, failure, rq, dq, written>>
  /\ ExecConfigUnchanged /\ HooksUnchanged
  /\ UNCHANGED <<plVars, trVars, btVars, dfVars, fnVars, inVars>>

\* createParallelReadStream, Promise.all settles.
ParallelReadSettles ==
  /\ rpc = "both"
  /\ epc \in {"piping", "failed", "catch", "finally", "teardown", "resolved",
              "rejected"}
  /\ \/ /\ ReaderThrows
        /\ UNCHANGED <<aNull, bNull, lastStep>>
     \/ \E ra \in PipeResults, rb \in PipeResults : StepResults(ra, rb)
  /\ UNCHANGED <<nSteps, aCalls, bCalls, calledAfterNull, aRes, bArg,
                 readsAfterFailure, written>>
  /\ ExecConfigUnchanged /\ HooksUnchanged
  /\ UNCHANGED <<plVars, btVars, dfVars, fnVars, inVars>>

\* createSequentialReadStream, a step begins: await aReaderFn().
SequentialReadBegins ==
  /\ sequentialRead
  /\ MayRead
  /\ nSteps < MaxSteps
  /\ rpc' = "a"
  /\ nSteps' = nSteps + 1
  /\ aCalls' = aCalls + 1
  /\ calledAfterNull' = Recalled({"a"})
  /\ UNCHANGED <<bCalls, aNull, bNull, aRes, bArg, lastStep, nYielded,
                 readsAfterFailure>>
  /\ UNCHANGED <<epc, failure, rq, dq, written>>
  /\ ExecConfigUnchanged /\ HooksUnchanged
  /\ UNCHANGED <<plVars, trVars, btVars, dfVars, fnVars, inVars>>

\* Mutant: bReaderFn gets what aReaderFn returned in the step before.
SequentialReadAStaleArgument ==
  /\ rpc = "a"
  /\ epc \in {"piping", "failed", "catch", "finally", "teardown", "resolved",
              "rejected"}
  /\ \/ /\ ReaderThrows
        /\ UNCHANGED <<aRes, bArg, bCalls, calledAfterNull, readsAfterFailure,
                       aNull>>
     \/ \E ra \in PipeResults :
          /\ aRes' = ra
          /\ aNull' = (aNull \/ ra.null)
          /\ bArg' = <<aRes>>
          /\ bCalls' = bCalls + 1
          /\ calledAfterNull' = Recalled({"b"})
          /\ readsAfterFailure' = readsAfterFailure + AfterFailure
          /\ rpc' = "b"
          /\ UNCHANGED <<epc, failure, rq, dq, trVars, nYielded>>
  /\ UNCHANGED <<nSteps, aCalls, bNull, lastStep, written>>
  /\ ExecConfigUnchanged /\ HooksUnchanged
  /\ UNCHANGED <<plVars, btVars, dfVars, fnVars, inVars>>

\* createSequentialReadStream, aReaderFn settled: await bReaderFn(aResults).
\* The step is an async function the stream cannot stop: it goes on to invoke
\* bReaderFn even when a stage failed while aReaderFn was awaited.
SequentialReadA ==
  /\ rpc = "a"
  /\ epc \in {"piping", "failed", "catch", "finally", "teardown", "resolved",
              "rejected"}
  /\ \/ /\ ReaderThrows
        /\ UNCHANGED <<aRes, bArg, bCalls, calledAfterNull, readsAfterFailure,
                       aNull>>
     \/ \E ra \in PipeResults :
          /\ aRes' = ra
          /\ aNull' = (aNull \/ ra.null)
          /\ bArg' = <<ra>>
          /\ bCalls' = bCalls + 1
          /\ calledAfterNull' = Recalled({"b"})
          /\ readsAfterFailure' = readsAfterFailure + AfterFailure
          /\ rpc' = "b"
          /\ UNCHANGED <<epc, failure, rq, dq, trVars, nYielded>>
  /\ UNCHANGED <<nSteps, aCalls, bNull, lastStep, written>>
  /\ ExecConfigUnchanged /\ HooksUnchanged
  /\ UNCHANGED <<plVars, btVars, dfVars, fnVars, inVars>>

\* createSequentialReadStream, bReaderFn settled.
SequentialReadB ==
  /\ rpc = "b"
  /\ epc \in {"piping", "failed", "catch", "finally", "teardown", "resolved",
              "rejected"}
  /\ \/ /\ ReaderThrows
        /\ UNCHANGED <<aNull, bNull, lastStep>>
     \/ \E rb \in PipeResults : StepResults(aRes, rb)
  /\ UNCHANGED <<nSteps, aCalls, bCalls, calledAfterNull, aRes, bArg,
                 readsAfterFailure, written>>
  /\ ExecConfigUnchanged /\ HooksUnchanged
  /\ UNCHANGED <<plVars, btVars, dfVars, fnVars, inVars>>

\* The transform takes a buffered chunk pair once it is ready again.
TransformDrains ==
  /\ epc = "piping"
  /\ rq # <<>>
  /\ TransformReady
  /\ TransformWrite(Head(rq))
  /\ rq' = Tail(rq)
  /\ dq' = dq \o pushed'
  /\ IF tState' = "errored" THEN StageFails("transform")
     ELSE UNCHANGED <<epc, failure>>
  /\ UNCHANGED written
  /\ ExecConfigUnchanged /\ HooksUnchanged /\ ReaderUnchanged
  /\ UNCHANGED <<plVars, btVars, dfVars, fnVars, inVars>>

\* The read stream ended and every chunk pair is transformed: the transform's
\* writable side ends and final runs.
TransformFinishes ==
  /\ epc = "piping"
  /\ rpc = "ended"
  /\ rq = <<>>
  /\ TransformEnd
  /\ dq' = dq \o pushed'
  /\ UNCHANGED <<epc, failure, rq, written>>
  /\ ExecConfigUnchanged /\ HooksUnchanged /\ ReaderUnchanged
  /\ UNCHANGED <<plVars, btVars, dfVars, fnVars, inVars>>

\* createFormatStream: formatFn(chunk), joinFn, and the block is written to
\* the output stream; formatFn or joinFn may throw.
FormatStep ==
  /\ epc = "piping"
  /\ dq # <<>>
  /\ \/ /\ dq' = Tail(dq)
        /\ written' = written + 1
        /\ UNCHANGED <<epc, failure>>
     \/ /\ StageFails("format")
        /\ UNCHANGED <<dq, written>>
  /\ UNCHANGED rq
  /\ ExecConfigUnchanged /\ HooksUnchanged /\ ReaderUnchanged
  /\ UNCHANGED <<plVars, trVars, btVars, dfVars, fnVars, inVars>>

\* The output stream of buildOutputStream errors: the file cannot be opened
\* or written.
SinkFails ==
  /\ epc = "piping"
  /\ StageFails("sink")
  /\ UNCHANGED <<rq, dq, written>>
  /\ ExecConfigUnchanged /\ HooksUnchanged /\ ReaderUnchanged
  /\ UNCHANGED <<plVars, trVars, btVars, dfVars, fnVars, inVars>>

\* Every stream has finished: the promise of pipeline() resolves and the try
\* block is left.
PipelineCompletes ==
  /\ epc = "piping"
  /\ tState = "finished"
  /\ dq = <<>>
  /\ epc' = "finally"
  /\ UNCHANGED <<failure, rq, dq, written>>
  /\ ExecConfigUnchanged /\ HooksUnchanged /\ ReaderUnchanged
  /\ UNCHANGED <<plVars, trVars, btVars, dfVars, fnVars, inVars>>

\* The transform has ended both sides and closed itself: pipeline no longer
\* destroys it.
TransformClosed == tState = "finished" /\ dq = <<>>

\* pipeline() destroys the streams with the error of the stage that failed:
\* the transform emits 'error' unless it has closed. An exception out of its
\* listener is uncaught and ends the process; otherwise the promise of
\* pipeline() rejects.
PipelineDestroys ==
  /\ epc = "failed"
  /\ IF TransformClosed
     THEN /\ UNCHANGED trVars
          /\ epc' = "catch"
     ELSE /\ TransformErrorEvent
          /\ epc' = IF uncaught' THEN "crashed" ELSE "catch"
  /\ rq' = <<>>
  /\ dq' = <<>>
  /\ UNCHANGED <<failure, written>>
  /\ ExecConfigUnchanged /\ HooksUnchanged /\ ReaderUnchanged
  /\ UNCHANGED <<plVars, btVars, dfVars, fnVars, inVars>>

\* Mutant: the rejection of pipeline() is not handled.
PipelineCatchNone ==
  /\ epc = "catch"
  /\ epc' = "finally"
  /\ consoleLogs' = consoleLogs + 1
  /\ UNCHANGED <<failure, hookThrew, setupCalls, teardownCalls, errorFnCalls,
                 consoleErrors, rq, dq, written>>
  /\ ExecConfigUnchanged /\ ReaderUnchanged
  /\ UNCHANGED <<plVars, trVars, btVars, dfVars, fnVars, inVars>>

\* .catch((e) => (errorFn ? errorFn(e) : console.error(e))): what errorFn
\* throws is caught by the catch block, which logs it.
PipelineCatch ==
  /\ epc = "catch"
  /\ epc' = "finally"
  /\ IF hasErrorFn
     THEN /\ errorFnCalls' = errorFnCalls + 1
          /\ \/ UNCHANGED <<hookThrew, consoleLogs>>
             \/ hookThrew' = TRUE /\ consoleLogs' = consoleLogs + 1
          /\ UNCHANGED consoleErrors
     ELSE /\ consoleErrors' = consoleErrors + 1
          /\ UNCHANGED <<errorFnCalls, hookThrew, consoleLogs>>
  /\ UNCHANGED <<failure, setupCalls, teardownCalls, rq, dq, written>>
  /\ ExecConfigUnchanged /\ ReaderUnchanged
  /\ UNCHANGED <<plVars, trVars, btVars, dfVars, fnVars, inVars>>

\* Mutant: teardown runs only when nothing failed.
FinallyBlockOnSuccess ==
  /\ epc = "finally"
  /\ IF hasTeardown /\ failure = "none"
     THEN epc' = "teardown" /\ teardownCalls' = teardownCalls + 1
     ELSE epc' = "resolved" /\ UNCHANGED teardownCalls
  /\ UNCHANGED <<failure, hookThrew, setupCalls, errorFnCalls, consoleErrors,
                 consoleLogs, rq, dq, written>>
  /\ ExecConfigUnchanged /\ ReaderUnchanged
  /\ UNCHANGED <<plVars, trVars, btVars, dfVars, fnVars, inVars>>

\* finally { if (teardownFn) await teardownFn(); }
FinallyBlock ==
  /\ epc = "finally"
  /\ IF hasTeardown
     THEN epc' = "teardown" /\ teardownCalls' = teardownCalls + 1
     ELSE epc' = "resolved" /\ UNCHANGED teardownCalls
  /\ UNCHANGED <<failure, hookThrew, setupCalls, errorFnCalls, consoleErrors,
                 consoleLogs, rq, dq, written>>
  /\ ExecConfigUnchanged /\ ReaderUnchanged
  /\ UNCHANGED <<plVars, trVars, btVars, dfVars, fnVars, inVars>>

\* await teardownFn() settles: its rejection leaves the finally block and
\* rejects the run.
TeardownSettles ==
  /\ epc = "teardown"
  /\ \/ epc' = "resolved"
     \/ epc' = "rejected"
  /\ UNCHANGED <<failure, hookThrew, setupCalls, teardownCalls, errorFnCalls,
                 consoleErrors, consoleLogs, rq, dq, written>>
  /\ ExecConfigUnchanged /\ ReaderUnchanged
  /\ UNCHANGED <<plVars, trVars, btVars, dfVars, fnVars, inVars>>

Next ==
  \/ RunStarts
  \/ SetupSettles
  \/ ParallelReadBegins
  \/ ParallelReadSettles
  \/ SequentialReadBegins
  \/ SequentialReadA
  \/ SequentialReadB
  \/ TransformDrains
  \/ TransformFinishes
  \/ FormatStep
  \/ SinkFails
  \/ PipelineCompletes
  \/ PipelineDestroys
  \/ PipelineCatch
  \/ FinallyBlock
  \/ TeardownSettles

Spec == Init /\ [][Next]_vars

\* ------------------------------------- claims on the readers and executor

\* A step of the independent read stream settles with both results.
ParallelStepSettled ==
  ~sequentialRead /\ rpc = "both" /\ rpc' \notin {"both", "failed"}

\* C4: in independent mode the sequence ends exactly on the step in which
\* both readers return null; a step in which only one does, even a reader
\* that returned null before, yields the pair and the iteration goes on.
C4_EndsOnBothNull ==
  /\ [](~sequentialRead /\ rpc = "ended" => lastStep = <<Null, Null>>)
  /\ [][ParallelStepSettled =>
          IF lastStep' = <<Null, Null>>
          THEN rpc' \in {"ended", "destroyed"} /\ nYielded' = nYielded
          ELSE /\ rpc' \in {"idle", "destroyed"}
               /\ nYielded' = nYielded + 1
               /\ epc = "piping" =>
                    /\ rpc' = "idle"
                    /\ \/ rq' = Append(rq, lastStep')
                       \/ lastChunk' = lastStep' /\ nChunks' = nChunks + 1]_vars

\* The first reader returned null in an earlier step, was invoked again and
\* returned null again while the second returned rows: the pair was yielded
\* and the iteration goes on.
C4_Witness ==
  /\ ~sequentialRead
  /\ "a" \in calledAfterNull
  /\ lastStep = <<Null, Rows(<<R3>>)>>
  /\ nYielded = 3
  /\ rpc = "idle"
  /\ epc = "piping"

\* C5 as stated: no reader is invoked again after it returned null.
C5_NeverCalledAfterNull == calledAfterNull = {}

\* C5 amended: no reader is invoked again after a step in which both readers
\* returned null; a reader that returned null while the other returned rows
\* is invoked again in the next step.
C5_NoCallAfterBothNull ==
  [][lastStep = <<Null, Null>> =>
       aCalls' = aCalls /\ bCalls' = bCalls /\ nSteps' = nSteps]_vars

\* A reader returned null early and was invoked again; then both returned
\* null and the read stream ended.
C5_Witness ==
  /\ lastStep = <<Null, Null>>
  /\ rpc = "ended"
  /\ calledAfterNull # {}
  /\ nSteps = 3

RunOver == epc \in {"resolved", "rejected", "crashed"}
StageFailed == failure \in {"reader", "transform", "format", "sink"}

\* C9: a supplied teardown hook is invoked exactly once per run, after the
\* pipeline finished or failed, whatever the outcome.
C9_TeardownOnce ==
  hasTeardown =>
    /\ teardownCalls <= 1
    /\ (teardownCalls = 1 => epc \in {"teardown", "resolved", "rejected"})
    /\ (RunOver => teardownCalls = 1)

\* C10: a stage failure goes once to the error hook when one is supplied and
\* is logged otherwise, and the run then resolves.
C10_StageFailureHandled ==
  (StageFailed /\ RunOver) =>
    /\ epc = "resolved"
    /\ IF hasErrorFn THEN errorFnCalls = 1 /\ consoleErrors = 0
       ELSE errorFnCalls = 0 /\ consoleErrors = 1

\* The failure has reached the error hook, the log or the caller.
Propagated == epc \in {"finally", "teardown", "resolved", "rejected"}

\* C11: when a stage fails and the error hook throws, the run rejects.
C11_HookRethrowRejects ==
  (StageFailed /\ hookThrew /\ RunOver) => epc = "rejected"

\* C12: with the accumulating transform, by the time a stage failure reaches
\* the error hook or the caller the accumulator [missing, extraneous,
\* matchCount] has been written to the partial-state file.
C12_ProgressSavedOnFailure ==
  (pauseTransform /\ StageFailed /\ (epc = "catch" \/ Propagated)) =>
    partialFile = <<accumulator>>

\* C13: when saving the accumulator fails, the run still reports the stage
\* failure that triggered it: to the error hook when one is supplied, to the
\* log otherwise.
C13_SaveFailureOnlyLogged ==
  uncaught =>
    /\ epc # "crashed"
    /\ RunOver => IF hasErrorFn THEN errorFnCalls = 1 ELSE consoleErrors = 1

\* mkdirSync failed with something else than EEXIST.
MkdirFailed == uncaught /\ ~dirExists

\* C14: a failure to create the working directory, other than its being
\* there already, ends the run before any pipeline work: no reader was
\* invoked and no chunk pair was processed.
C14_MkdirFailureBeforeWork ==
  MkdirFailed => (aCalls = 0 /\ bCalls = 0 /\ nChunks = 0 /\ nYielded = 0)

\* A step of the dependent read stream settles with both results.
SequentialStepSettled ==
  sequentialRead /\ rpc = "b" /\ rpc' \notin {"b", "failed"}

\* C16: in dependent mode the first reader is invoked before the second in
\* every step, the second gets as its argument what the first returned in that
\* step, null included, and the sequence ends on the first step in which both
\* return null.
C16_SecondGetsFirstResult ==
  /\ [](sequentialRead =>
          /\ bCalls <= aCalls /\ aCalls <= bCalls + 1
          /\ (rpc = "a" => aCalls = bCalls + 1)
          /\ (rpc = "b" => aCalls = bCalls /\ bArg = <<aRes>>)
          /\ (lastStep # <<>> /\ rpc \in {"idle", "ended", "destroyed"} =>
                bArg = <<lastStep[1]>>)
          /\ (rpc = "ended" => lastStep = <<Null, Null>>))
  /\ [][SequentialStepSettled =>
          /\ lastStep'[1] = aRes
          /\ IF lastStep' = <<Null, Null>>
             THEN rpc' \in {"ended", "destroyed"} /\ nYielded' = nYielded
             ELSE /\ rpc' \in {"idle", "destroyed"}
                  /\ nYielded' = nYielded + 1
                  /\ epc = "piping" => rpc' = "idle"]_vars
  /\ [][sequentialRead /\ lastStep = <<Null, Null>> =>
          aCalls' = aCalls /\ bCalls' = bCalls]_vars

\* The second reader was given null by the first, returned rows, and in a
\* later step both returned null: the sequence has ended.
C16_Witness ==
  /\ sequentialRead
  /\ rpc = "ended"
  /\ nSteps = 3
  /\ "a" \in calledAfterNull
  /\ bArg = <<Null>>
  /\ nYielded = 2

C18_SetupBeforeReaders ==
  hasSetup =>
    /\ setupCalls = (IF epc = "start" THEN 0 ELSE 1)
    /\ (epc \in {"start", "setup"} => aCalls = 0 /\ bCalls = 0)
    /\ (failure = "setup" =>
          aCalls = 0 /\ bCalls = 0 /\ nYielded = 0 /\ nChunks = 0)

\* Setup fulfilled and the readers were then invoked, to the end.
C18_Witness ==
  /\ hasSetup
  /\ setupCalls = 1
  /\ aCalls >= 2 /\ bCalls >= 2
  /\ epc = "resolved"
  /\ failure = "none"

\* Setup rejected: the run is over and no reader was invoked.
C18_WitnessSetupFailed ==
  hasSetup /\ failure = "setup" /\ RunOver /\ setupCalls = 1 /\ aCalls = 0


\* C27: when an accumulating pipeline has failed, the partial-state file holds
\* the accumulator, which accounts for every chunk pair merged before the
\* failure.
C27_MergedWorkPersisted ==
  (pauseTransform /\ StageFailed /\ RunOver) =>
    (partialFile # <<>> /\ partialFile[1] = accumulator)

\* C28 as stated: once a stage has failed no reader is invoked, no step
\* begins and no chunk pair is transformed.
C28_NoReaderCallAfterFailure ==
  [][StageFailed =>
       (/\ aCalls' = aCalls
        /\ bCalls' = bCalls
        /\ nSteps' = nSteps
        /\ nChunks' = nChunks)]_vars

\* C28 amended: once a stage has failed no step begins, aReaderFn is not
\* invoked, no chunk pair is transformed and nothing more is written; the
\* only reader invocation left is that of bReaderFn by the step of the
\* dependent read stream that was awaiting aReaderFn when the stage failed,
\* at most once per run.
C28_NoRetryAfterFailure ==
  /\ [][StageFailed =>
          (/\ nSteps' = nSteps
           /\ aCalls' = aCalls
           /\ nChunks' = nChunks
           /\ written' = written
           /\ bCalls' - bCalls = readsAfterFailure' - readsAfterFailure)]_vars
  /\ [](readsAfterFailure <= 1)
  /\ [](~sequentialRead => readsAfterFailure = 0)

\* The sink failed while aReaderFn was awaited, bReaderFn was invoked all the
\* same, and the run ended with no further step.
C28_Witness ==
  /\ sequentialRead
  /\ failure = "sink"
  /\ readsAfterFailure = 1
  /\ epc = "resolved"
  /\ rpc = "destroyed"
  /\ nSteps = 2 /\ aCalls = 2 /\ bCalls = 2

\* C30: in independent mode a chunk pair with the end-marker on one side only
\* is transformed without a stage failure, the finished side counting as an
\* empty chunk: the Records of the other side are merged into the
\* accumulator, or diffed against nothing by the streaming transform.
C30_OneSideEndedIsEmpty ==
  [][(/\ ~sequentialRead
      /\ nChunks' = nChunks + 1
      /\ lastChunk'[1].null # lastChunk'[2].null) =>
       (/\ tState' = "open"
        /\ failure' = "none"
        /\ IF pauseTransform
           THEN accumulator' =
                  defaultCompareFn(accumulator[1] \o lastChunk'[1].rows,
                                   accumulator[2] \o lastChunk'[2].rows,
                                   accumulator[3])
           ELSE /\ pushed' # <<>>
                /\ FieldSets(SeqRange(pushed'[1][1])) =
                     FieldSets(SeqRange(lastChunk'[1].rows))
                /\ FieldSets(SeqRange(pushed'[1][2])) =
                     FieldSets(SeqRange(lastChunk'[2].rows)))]_vars


\* ========================================================= parallelLimit

\* The value a task resolves to: tasks are told apart by their results.
TaskResult(t) == t

\* Mutant: one worker for every task, whatever the limit.
MaxExecutorsPerTask(lim, ts) == IF lim < 0 THEN lim ELSE Len(ts)

\* const maxExecutors = tasks.length < limit ? tasks.length : limit
MaxExecutors(lim, ts) == IF Len(ts) < lim THEN Len(ts) ELSE lim

Workers == DOMAIN wpc

PLInit ==
  /\ limit \in (-1)..MaxLimit
  /\ \E n \in 0..MaxTasks : tasks = [i \in 1..n |-> i]
  /\ queue = <<>>
  /\ wpc = <<>>
  /\ wcur = <<>>
  /\ wacc = <<>>
  /\ plState = "init"
  /\ plResult = <<>>
  /\ failedTasks = {}
  /\ startOrder = <<>>
  /\ doneOrder = <<>>
  /\ TransformIdle
  /\ ExecutorIdle
  /\ BuildDefault
  /\ DefaultsIdle
  /\ FunctionsIdle /\ InstancesIdle

\* Mutant: the workers take their tasks from the caller's list itself.
ParallelLimitCallNoCopy ==
  /\ plState = "init"
  /\ LET m == MaxExecutors(limit, tasks) IN
       IF m < 0
       THEN /\ plState' = "thrown"
            /\ UNCHANGED <<tasks, queue, wpc, wcur, wacc, startOrder>>
       ELSE /\ wpc' = [w \in 1..m |-> "running"]
            /\ wcur' = [w \in 1..m |-> tasks[w]]
            /\ wacc' = [w \in 1..m |-> <<>>]
            /\ queue' = SubSeq(tasks, m + 1, Len(tasks))
            /\ tasks' = queue'
            /\ startOrder' = SubSeq(tasks, 1, m)
            /\ plState' = "waiting"
  /\ UNCHANGED <<limit, plResult, failedTasks, doneOrder>>
  /\ UNCHANGED <<trVars, exVars, btVars, dfVars, fnVars, inVars>>

\* parallelLimit up to its await. [...new Array(maxExecutors)] throws a
\* RangeError for a negative length. Otherwise the workers are created in
\* index order and each runs executeTasks synchronously up to its first
\* await: acc = [], nextTask = taskQueue.shift(), nextTask() is called.
ParallelLimitCall ==
  /\ plState = "init"
  /\ LET m == MaxExecutors(limit, tasks) IN
       IF m < 0
       THEN /\ plState' = "thrown"
            /\ UNCHANGED <<queue, wpc, wcur, wacc, startOrder>>
       ELSE /\ wpc' = [w \in 1..m |-> "running"]
            /\ wcur' = [w \in 1..m |-> tasks[w]]
            /\ wacc' = [w \in 1..m |-> <<>>]
            /\ queue' = SubSeq(tasks, m + 1, Len(tasks))
            /\ startOrder' = SubSeq(tasks, 1, m)
            /\ plState' = "waiting"
  /\ UNCHANGED <<limit, tasks, plResult, failedTasks, doneOrder>>
  /\ UNCHANGED <<trVars, exVars, btVars, dfVars, fnVars, inVars>>

\* Mutant: the worker runs one task and returns.
TaskFulfilsOnce(w) ==
  /\ plState = "waiting"
  /\ w \in Workers
  /\ wpc[w] = "running"
  /\ wacc' = [wacc EXCEPT ![w] = Append(@, TaskResult(wcur[w]))]
  /\ doneOrder' = Append(doneOrder, wcur[w])
  /\ wpc' = [wpc EXCEPT ![w] = "fulfilled"]
  /\ UNCHANGED <<queue, wcur, startOrder>>
  /\ UNCHANGED <<limit, tasks, plState, plResult, failedTasks>>
  /\ UNCHANGED <<trVars, exVars, btVars, dfVars, fnVars, inVars>>

\* Mutant: the worker reads the front of the queue and leaves it there.
TaskFulfilsPeeks(w) ==
  /\ plState = "waiting"
  /\ w \in Workers
  /\ wpc[w] = "running"
  /\ wacc' = [wacc EXCEPT ![w] = Append(@, TaskResult(wcur[w]))]
  /\ doneOrder' = Append(doneOrder, wcur[w])
  /\ IF queue = <<>>
     THEN /\ wpc' = [wpc EXCEPT ![w] = "fulfilled"]
          /\ UNCHANGED <<queue, wcur, startOrder>>
     ELSE /\ wcur' = [wcur EXCEPT ![w] = Head(queue)]
          /\ startOrder' = Append(startOrder, Head(queue))
          /\ UNCHANGED <<queue, wpc>>
  /\ UNCHANGED <<limit, tasks, plState, plResult, failedTasks>>
  /\ UNCHANGED <<trVars, exVars, btVars, dfVars, fnVars, inVars>>

\* executeTasks after `await nextTask()` resolved: acc.push(result);
\* nextTask = taskQueue.shift(); the loop calls it or the worker returns acc.
TaskFulfils(w) ==
  /\ plState = "waiting"
  /\ w \in Workers
  /\ wpc[w] = "running"
  /\ wacc' = [wacc EXCEPT ![w] = Append(@, TaskResult(wcur[w]))]
  /\ doneOrder' = Append(doneOrder, wcur[w])
  /\ IF queue = <<>>
     THEN /\ wpc' = [wpc EXCEPT ![w] = "fulfilled"]
          /\ UNCHANGED <<queue, wcur, startOrder>>
     ELSE /\ wcur' = [wcur EXCEPT ![w] = Head(queue)]
          /\ queue' = Tail(queue)
          /\ startOrder' = Append(startOrder, Head(queue))
          /\ UNCHANGED wpc
  /\ UNCHANGED <<limit, tasks, plState, plResult, failedTasks>>
  /\ UNCHANGED <<trVars, exVars, btVars, dfVars, fnVars, inVars>>

\* Mutant: the first rejection fails the call at once.
TaskRejectsFailFast(w) ==
  /\ plState = "waiting"
  /\ w \in Workers
  /\ wpc[w] = "running"
  /\ wpc' = [wpc EXCEPT ![w] = "rejected"]
  /\ failedTasks' = failedTasks \cup {wcur[w]}
  /\ plState' = "thrown"
  /\ UNCHANGED <<limit, tasks, queue, wcur, wacc, plResult,
                 startOrder, doneOrder>>
  /\ UNCHANGED <<trVars, exVars, btVars, dfVars, fnVars, inVars>>

\* executeTasks when `await nextTask()` rejects: the worker's promise rejects,
\* its acc is lost and it takes no further task.
TaskRejects(w) ==
  /\ plState = "waiting"
  /\ w \in Workers
  /\ wpc[w] = "running"
  /\ wpc' = [wpc EXCEPT ![w] = "rejected"]
  /\ failedTasks' = failedTasks \cup {wcur[w]}
  /\ UNCHANGED <<limit, tasks, queue, wcur, wacc, plState, plResult,
                 startOrder, doneOrder>>
  /\ UNCHANGED <<trVars, exVars, btVars, dfVars, fnVars, inVars>>

AllSettled == \A w \in Workers : wpc[w] # "running"

\* Mutant: the flattening loses the last worker's results.
FlattenedDropsLastWorker ==
  IF Len(wacc) = 0 THEN <<>> ELSE FlattenUpTo(wacc, Len(wacc) - 1)

\* Mutant: the results are listed as the tasks complete.
FlattenedByCompletion == [i \in 1..Len(doneOrder) |-> TaskResult(doneOrder[i])]

\* results.map(r => r.status === 'fulfilled' && r.value).filter(r => !!r).flat():
\* every worker's value is an array, which is truthy, so the filter keeps all.
Flattened == FlattenUpTo(wacc, Len(wacc))

\* Mutant: the rejected workers are skipped instead of failing the call.
ParallelLimitReturnPartial ==
  /\ plState = "waiting"
  /\ AllSettled
  /\ plState' = "returned"
  /\ plResult' = FlattenUpTo([w \in Workers |->
                     IF wpc[w] = "fulfilled" THEN wacc[w] ELSE <<>>], Len(wacc))
  /\ UNCHANGED <<limit, tasks, queue, wpc, wcur, wacc, failedTasks,
                 startOrder, doneOrder>>
  /\ UNCHANGED <<trVars, exVars, btVars, dfVars, fnVars, inVars>>

\* After Promise.allSettled: throw on the first result that is not fulfilled,
\* else return the workers' values flattened.
ParallelLimitReturn ==
  /\ plState = "waiting"
  /\ AllSettled
  /\ IF \E w \in Workers : wpc[w] = "rejected"
     THEN /\ plState' = "thrown"
          /\ UNCHANGED plResult
     ELSE /\ plState' = "returned"
          /\ plResult' = Flattened
  /\ UNCHANGED <<limit, tasks, queue, wpc, wcur, wacc, failedTasks,
                 startOrder, doneOrder>>
  /\ UNCHANGED <<trVars, exVars, btVars, dfVars, fnVars, inVars>>

PLNext ==
  \/ ParallelLimitCall
  \/ \E w \in 1..MaxLimit : TaskFulfils(w)
  \/ \E w \in 1..MaxLimit : TaskRejects(w)
  \/ ParallelLimitReturn

SpecPL == PLInit /\ [][PLNext]_vars

\* The event loop runs parallelLimit up to its await and on from it once the
\* workers have settled, and every task called settles, one way or the other.
PLFairness ==
  /\ WF_vars(ParallelLimitCall)
  /\ \A w \in 1..MaxLimit : WF_vars(TaskFulfils(w) \/ TaskRejects(w))
  /\ WF_vars(ParallelLimitReturn)

SpecPLFair == SpecPL /\ PLFairness

\* ------------------------------------------------ claims on parallelLimit

\* C6: if any task fails, parallelLimit fails with an error and returns no
\* result list, whatever other tasks completed before or after the failure.
C6_FailureFailsCall ==
  failedTasks # {} =>
    /\ plState # "returned"
    /\ plResult = <<>>
    /\ (AllSettled /\ plState # "waiting" => plState = "thrown")

\* A failed call in which tasks completed both before and after the failure.
C6_Witness ==
  /\ plState = "thrown"
  /\ failedTasks # {}
  /\ \E w \in Workers : wpc[w] = "rejected" /\ wacc[w] # <<>>
  /\ \E w \in Workers : wpc[w] = "fulfilled" /\ wacc[w] # <<>>

Occurrences(s, x) == Cardinality({i \in 1..Len(s) : s[i] = x})

\* C7: when no task fails and limit >= |tasks|, the returned list has exactly
\* one entry per input task, each task's result exactly once.
C7_OneResultPerTask ==
  (plState = "returned" /\ limit >= Len(tasks)) =>
    /\ Len(plResult) = Len(tasks)
    /\ \A i \in 1..Len(tasks) : Occurrences(plResult, TaskResult(tasks[i])) = 1
    /\ \A i \in 1..Len(tasks) : Occurrences(startOrder, tasks[i]) = 1

C7_Witness ==
  /\ plState = "returned"
  /\ limit >= Len(tasks)
  /\ Len(tasks) >= 2
  /\ failedTasks = {}

Pos(s, x) == CHOOSE i \in 1..Len(s) : s[i] = x
WorkerOf(t) == CHOOSE w \in Workers : t \in SeqRange(wacc[w])

\* C8: the returned list is grouped by worker, in worker index order, and
\* within a worker in the order that worker finished its tasks.
C8_GroupedByWorker ==
  plState = "returned" =>
    /\ Len(plResult) = Len(doneOrder)
    /\ SeqRange(plResult) = {TaskResult(t) : t \in SeqRange(doneOrder)}
    /\ \A i, j \in 1..Len(plResult) :
         i < j =>
           \/ WorkerOf(plResult[i]) < WorkerOf(plResult[j])
           \/ /\ WorkerOf(plResult[i]) = WorkerOf(plResult[j])
              /\ Pos(doneOrder, plResult[i]) < Pos(doneOrder, plResult[j])

\* A returned list that is neither in completion order nor in input order.
C8_Witness ==
  /\ plState = "returned"
  /\ plResult # FlattenedByCompletion
  /\ plResult # [i \in 1..Len(tasks) |-> TaskResult(tasks[i])]

\* The tasks that were started and have not settled.
InFlight == SeqRange(startOrder) \ (SeqRange(doneOrder) \cup failedTasks)

\* C24: for a limit that is a count (limit >= 0), min(limit, |tasks|) workers
\* are started, and never more than limit tasks are started and unsettled.
C24_AtMostLimitInFlight ==
  limit >= 0 =>
    /\ (plState # "init" =>
          Len(wpc) = (IF limit < Len(tasks) THEN limit ELSE Len(tasks)))
    /\ Cardinality(InFlight) <= limit

\* Fewer workers than tasks: as many tasks as the limit allows are in flight
\* after some have settled.
C24_Witness ==
  /\ plState = "waiting"
  /\ limit = 2
  /\ Len(tasks) = 4
  /\ Cardinality(InFlight) = 2
  /\ Len(doneOrder) >= 1

\* C25: during a run the pending list changes only by losing its front
\* element, so the tasks started followed by the tasks pending are always
\* the input: every task is taken by one worker at most, started once at
\* most, and in input order.
C25_QueueOnlyPopped ==
  /\ [](plState \in {"waiting", "returned"} => startOrder \o queue = tasks)
  /\ [](\A w1, w2 \in Workers :
          (w1 # w2 /\ wpc[w1] = "running" /\ wpc[w2] = "running") =>
             wcur[w1] # wcur[w2])
  /\ [][plState = "waiting" => (queue' = queue \/ queue' = Tail(queue))]_vars

\* A worker has taken a task from the list after its first, and tasks are
\* still pending.
C25_Witness ==
  /\ plState = "waiting"
  /\ Len(startOrder) > Len(wpc)
  /\ queue # <<>>
  /\ Len(doneOrder) >= 1

\* C33: a task that fails stops the worker that ran it and nothing else;
\* a worker that goes on takes the next pending task as before; the call is
\* rejected only once every worker has settled, and tasks are left pending
\* then only if every worker was rejected.
C33_NotFailFast ==
  /\ []((plState = "thrown" /\ failedTasks # {}) => AllSettled)
  /\ []((failedTasks # {} /\ AllSettled /\ queue # <<>>) =>
          \A w \in Workers : wpc[w] = "rejected")
  /\ [][failedTasks' # failedTasks =>
          /\ plState' = plState
          /\ queue' = queue
          /\ \E w \in Workers :
               /\ wpc[w] = "running" /\ wpc'[w] = "rejected"
               /\ \A v \in Workers \ {w} :
                    wpc'[v] = wpc[v] /\ wcur'[v] = wcur[v]]_vars
  /\ [][\A w \in Workers :
          (/\ failedTasks # {}
           /\ plState = "waiting"
           /\ Len(wacc'[w]) > Len(wacc[w])
           /\ queue # <<>>) =>
            (/\ wpc'[w] = "running"
             /\ wcur'[w] = Head(queue)
             /\ queue' = Tail(queue))]_vars

\* One of two workers was rejected on its task and the other ran all the
\* other tasks before the call was rejected.
C33_Witness ==
  /\ plState = "thrown"
  /\ limit = 2
  /\ Len(tasks) = 4
  /\ Cardinality(failedTasks) = 1
  /\ Len(doneOrder) = 3
  /\ queue = <<>>

\* Every worker was rejected and tasks were never started.
C33_WitnessAllFailed ==
  /\ plState = "thrown"
  /\ \A w \in Workers : wpc[w] = "rejected"
  /\ queue # <<>>
  /\ Len(startOrder) < Len(tasks)

\* C34: when limit >= |tasks| and no task fails, worker i runs input task i
\* and nothing else, and result i of the returned list is that of input
\* task i, in whatever order the tasks completed.
C34_InputOrder ==
  (limit >= Len(tasks) /\ plState = "returned") =>
    /\ \A w \in Workers : wacc[w] = <<TaskResult(tasks[w])>>
    /\ plResult = [i \in 1..Len(tasks) |-> TaskResult(tasks[i])]

\* Three tasks that completed last first.
C34_Witness ==
  /\ plState = "returned"
  /\ limit = 3
  /\ Len(tasks) = 3
  /\ doneOrder = <<3, 2, 1>>
  /\ plResult = <<TaskResult(1), TaskResult(2), TaskResult(3)>>

\* C35: with 1 <= limit < |tasks|, unless a task fails the call eventually
\* returns, with every input task started once and a list of |tasks| entries.
C35_EventuallyReturns ==
  (limit >= 1 /\ limit < Len(tasks)) =>
    <>(\/ failedTasks # {}
       \/ /\ plState = "returned"
          /\ startOrder = tasks
          /\ Len(plResult) = Len(tasks))

C35_Witness ==
  /\ plState = "returned"
  /\ limit = 2
  /\ Len(tasks) = 4
  /\ startOrder = tasks
  /\ Len(plResult) = 4
  /\ failedTasks = {}

\* C36: no step of parallelLimit changes the list of tasks the caller passed.
C36_TasksUntouched == [][tasks' = tasks]_vars

\* The call failed after the workers took every task from their own list.
C36_Witness ==
  /\ plState = "thrown"
  /\ failedTasks # {}
  /\ tasks = <<1, 2, 3, 4>>
  /\ queue = <<>>
  /\ Len(startOrder) = 4

\* The call returned; the caller's list is as it was.
C36_WitnessReturned ==
  /\ plState = "returned"
  /\ tasks = <<1, 2, 3>>
  /\ queue = <<>>
  /\ Len(plResult) = 3

\* ============ getArrayDiffs, defaultCompareFn and defaultFormatFn alone

\* JSON.stringify of a string whose characters need no escape.
JSONString(str) == <<"\"">> \o str \o <<"\"">>

\* JSON.stringify(obj) for a Record of strings: the fields in insertion order.
JSONStringify(obj) ==
  <<"{">> \o Join([i \in 1..Len(obj) |->
                     JSONString(obj[i][1]) \o <<":">> \o JSONString(obj[i][2])],
                  ",")
          \o <<"}">>

\* str.slice(1, -1)
Slice1(str) == SubSeq(str, 2, Len(str) - 1)

Digit(d) == <<<<"0">>, <<"1">>, <<"2">>, <<"3">>, <<"4">>, <<"5">>, <<"6">>,
              <<"7">>, <<"8">>, <<"9">>>>[d + 1]

RECURSIVE NumberToString(_)
\* `${matches}` for a count, or for NaN
NumberToString(n) ==
  IF n = NaN THEN <<"N", "a", "N">>
  ELSE IF n < 10 THEN Digit(n)
  ELSE NumberToString(n \div 10) \o Digit(n % 10)

\* ',"missing"' and ',"extraneous"'
MissingTag == <<",", "\"", "m", "i", "s", "s", "i", "n", "g", "\"">>
ExtraneousTag ==
  <<",", "\"", "e", "x", "t", "r", "a", "n", "e", "o", "u", "s", "\"">>
\* '"matches"'
MatchesName == <<"\"", "m", "a", "t", "c", "h", "e", "s", "\"">>

\* defaultFormatFn([missing, extraneous, matches])
defaultFormatFn(missing, extraneous, matches) ==
  [i \in 1..Len(missing) |-> Slice1(JSONStringify(missing[i])) \o MissingTag]
  \o [i \in 1..Len(extraneous) |->
        Slice1(JSONStringify(extraneous[i])) \o ExtraneousTag]
  \o <<MatchesName \o <<":", " ">> \o NumberToString(matches)>>

\* The arguments the functions are called with.
KeyDomain == {Str("1"), Str("2"), stringifyObject(R12)}
KeyLists == UNION {[1..n -> KeyDomain] : n \in 0..MaxKeys}
RecordLists == UNION {[1..n -> RecordDomain] : n \in 0..MaxRows}
MatchCounts == {0, 4, 10}

FInit ==
  /\ fpc = "call"
  /\ result = <<>>
  /\ \/ /\ fname = "getArrayDiffs"
        /\ argA \in KeyLists /\ argB \in KeyLists /\ argN = 0
     \/ /\ fname \in {"defaultCompareFn", "defaultFormatFn"}
        /\ argA \in RecordLists /\ argB \in RecordLists /\ argN \in MatchCounts
  /\ PLIdle /\ TransformIdle /\ ExecutorIdle /\ BuildDefault /\ DefaultsIdle
  /\ InstancesIdle

\* The function called returns.
Returns(value) ==
  /\ fpc = "call"
  /\ result' = value
  /\ fpc' = "returned"
  /\ UNCHANGED <<fname, argA, argB, argN>>
  /\ UNCHANGED <<plVars, trVars, exVars, btVars, dfVars, inVars>>

GetArrayDiffs ==
  /\ fname = "getArrayDiffs"
  /\ Returns(getArrayDiffs(argA, argB))

DefaultCompareFn ==
  /\ fname = "defaultCompareFn"
  /\ Returns(defaultCompareFn(argA, argB, argN))

DefaultFormatFn ==
  /\ fname = "defaultFormatFn"
  /\ Returns(defaultFormatFn(argA, argB, argN))

FNext == GetArrayDiffs \/ DefaultCompareFn \/ DefaultFormatFn

SpecF == FInit /\ [][FNext]_vars

\* ---------------------------------------- claims on the default functions

Returned(fn) == fname = fn /\ fpc = "returned"

\* C21: getArrayDiffs([a, b]) returns the distinct elements of a that are not
\* in b, the distinct elements of b that are not in a, each once, and the
\* number of distinct elements in both; so matches + |missing| is the number
\* of distinct elements of a, and matches + |extraneous| that of b.
C21_SetDiff ==
  Returned("getArrayDiffs") =>
    LET A == SeqRange(argA)
        B == SeqRange(argB)
    IN /\ SeqRange(result[1]) = A \ B
       /\ Len(result[1]) = Cardinality(A \ B)
       /\ SeqRange(result[2]) = B \ A
       /\ Len(result[2]) = Cardinality(B \ A)
       /\ result[3] = Cardinality(A \cap B)
       /\ result[3] + Len(result[1]) = Cardinality(A)
       /\ result[3] + Len(result[2]) = Cardinality(B)

\* diff(["x","x","y"], ["y"]) is ({"x"}, {}, 1).
C21_Witness ==
  /\ Returned("getArrayDiffs")
  /\ argA = <<Str("1"), Str("1"), Str("2")>>
  /\ argB = <<Str("2")>>
  /\ result = <<<<Str("1")>>, <<>>, 1>>

\* C22: for Records whose fields hold no reserved separator,
\* defaultCompareFn([source, target, prior]) returns the source Records with
\* no equal Record in target, the target Records with no equal Record in
\* source, each once, and prior plus the number of distinct Records in both;
\* Records are equal when they have the same fields, in whatever order, and
\* wherever they stand in chunks of whatever lengths.
C22_CompareChunks ==
  (/\ Returned("defaultCompareFn")
   /\ \A r \in SeqRange(argA) \cup SeqRange(argB) : ~HasSeparator(Fields(r))) =>
    LET src == FieldSets(SeqRange(argA))
        tgt == FieldSets(SeqRange(argB))
    IN /\ FieldSets(SeqRange(result[1])) = src \ tgt
       /\ Len(result[1]) = Cardinality(src \ tgt)
       /\ FieldSets(SeqRange(result[2])) = tgt \ src
       /\ Len(result[2]) = Cardinality(tgt \ src)
       /\ result[3] = argN + Cardinality(src \cap tgt)

\* Two source Records against one target Record with its fields in the other
\* order, ten matches before.
C22_Witness ==
  /\ Returned("defaultCompareFn")
  /\ argA = <<R3, R21>>
  /\ argB = <<R12>>
  /\ argN = 10
  /\ result = <<<<R3>>, <<>>, 11>>

\* The summary line of the documentation and of the tests: "matches":"n"
SummaryLine(n) ==
  MatchesName \o <<":">> \o JSONString(NumberToString(n))

\* C23: defaultFormatFn([missing, extraneous, matches]) returns one line per
\* missing Record, its fields then the "missing" tag, one line per extraneous
\* Record, its fields then the "extraneous" tag, and last the summary line
\* "matches":"n".
C23_FormatLines ==
  Returned("defaultFormatFn") =>
    /\ Len(result) = Len(argA) + Len(argB) + 1
    /\ \A i \in 1..Len(argA) :
         result[i] = Slice1(JSONStringify(argA[i])) \o MissingTag
    /\ \A i \in 1..Len(argB) :
         result[Len(argA) + i] = Slice1(JSONStringify(argB[i])) \o ExtraneousTag
    /\ result[Len(result)] = SummaryLine(argN)

\* ================== two accumulating transforms running side by side

\* The transforms of two pipelines run at once, as two tasks of parallelLimit.
Instances == {1, 2}

\* The chunk pairs written to them.
InstanceChunks ==
  {<<Rows(<<R12>>), Rows(<<>>)>>, <<Rows(<<>>), Rows(<<R21>>)>>,
   <<Rows(<<R3>>), Rows(<<R3>>)>>, <<Rows(<<R3>>), Rows(<<>>)>>}

\* let accumulator = [[], [], 0]
EmptyAccumulator == <<<<>>, <<>>, 0>>

\* Mutant: the accumulator is one variable shared by every transform.
AccumulatorShared(i) == 1

\* The accumulator a transform works on: the variable declared inside
\* createPausedDataTransform, one for each call of it.
AccumulatorOf(i) == i

\* The accumulator after a chunk pair: both sides appended, then compareFn.
MergeChunk(acc, chunk) ==
  defaultCompareFn(acc[1] \o chunk[1].rows, acc[2] \o chunk[2].rows, acc[3])

IInit ==
  /\ accumulators = [i \in Instances |-> EmptyAccumulator]
  /\ fedChunks = [i \in Instances |-> <<>>]
  /\ iState = [i \in Instances |-> "open"]
  /\ emitted = [i \in Instances |-> <<>>]
  /\ writeOrder = <<>>
  /\ PLIdle /\ TransformIdle /\ ExecutorIdle /\ BuildDefault /\ DefaultsIdle
  /\ FunctionsIdle

\* transform(chunk, _, callback) of the instance i
InstanceWrite(i) ==
  /\ iState[i] = "open"
  /\ Len(fedChunks[i]) < MaxInstanceChunks
  /\ \E chunk \in InstanceChunks :
       /\ accumulators' =
            [accumulators EXCEPT
               ![AccumulatorOf(i)] =
                  MergeChunk(accumulators[AccumulatorOf(i)], chunk)]
       /\ fedChunks' = [fedChunks EXCEPT ![i] = Append(@, chunk)]
  /\ writeOrder' = Append(writeOrder, i)
  /\ UNCHANGED <<iState, emitted>>
  /\ UNCHANGED <<plVars, trVars, exVars, btVars, dfVars, fnVars>>

\* final(callback) of the instance i: this.push(accumulator)
InstanceFinal(i) ==
  /\ iState[i] = "open"
  /\ iState' = [iState EXCEPT ![i] = "finished"]
  /\ emitted' = [emitted EXCEPT ![i] = <<accumulators[AccumulatorOf(i)]>>]
  /\ UNCHANGED <<accumulators, fedChunks, writeOrder>>
  /\ UNCHANGED <<plVars, trVars, exVars, btVars, dfVars, fnVars>>

INext == \E i \in Instances : InstanceWrite(i) \/ InstanceFinal(i)

SpecI == IInit /\ [][INext]_vars

\* ------------------------------------- claims on concurrent transforms

RECURSIVE RunAlone(_)
\* The accumulator of a transform fed these chunk pairs and nothing else.
RunAlone(chunks) ==
  IF chunks = <<>> THEN <<<<>>, <<>>, 0>>
  ELSE MergeChunk(RunAlone(SubSeq(chunks, 1, Len(chunks) - 1)),
                  chunks[Len(chunks)])

\* C29: whatever the interleaving of the chunk steps of two accumulating
\* transforms, the accumulator of each is what its own chunk pairs alone
\* give, and the DiffState each emits is the one it emits when run alone.
C29_OwnAccumulator ==
  \A i \in Instances :
    /\ accumulators[i] = RunAlone(fedChunks[i])
    /\ iState[i] = "finished" => emitted[i] = <<RunAlone(fedChunks[i])>>

\* The chunk steps alternate between the two transforms, which end with
\* different DiffStates.
C29_Witness ==
  /\ writeOrder = <<1, 2, 1, 2>>
  /\ iState = <<"finished", "finished">>
  /\ fedChunks[1] = << <<Rows(<<R12>>), Rows(<<>>)>>, <<Rows(<<>>), Rows(<<R21>>)>> >>
  /\ fedChunks[2] = << <<Rows(<<R3>>), Rows(<<>>)>>, <<Rows(<<R12>>), Rows(<<>>)>> >>
  /\ emitted[1] = << <<<<>>, <<>>, 1>> >>
  /\ Len(emitted[2][1][1]) = 2

====
